---- MODULE Spec2Model ----
(***************************************************************************)
(* Model of app.py: the Pelco-D frame encoder, the serial-port resolver    *)
(* and the PelcoController state machine (home_fast / stop / start_pass    *)
(* handlers run by HTTP request threads, and the pass worker thread).      *)
(*                                                                         *)
(* Units.  Angles are integers in 0.001 degree (175.0 deg = 175000), times *)
(* are integers in seconds, status.progress is an integer in 1/1000.       *)
(* Rates are in 0.001 degree per second.  The motion shaper's arithmetic   *)
(* is exact: a commanded angle is a mixed fraction i + r/d of 0.001        *)
(* degree, so the rounding of the interpreter's binary floating point is   *)
(* not part of the model.                                                  *)
(* Every statement that reads or writes state shared between threads       *)
(* (status fields, the stop event, the lock) is one step of its thread.    *)
(***************************************************************************)
EXTENDS Integers, Sequences, FiniteSets, TLC

\* ------------------------------------------------------------------------
\* Program constants (app.py, configuration block)
\* ------------------------------------------------------------------------
ADDR == 1
AZ_HOME_DEG == 175000
EL_HORIZON_DEG == 32000
EL_MAX_DEG == 55000
AZ_MIN_SAFE == 15000
AZ_MAX_SAFE == 335000
AZ_START_DEG == 90000
AZ_END_DEG == 260000
USE_CENTERED_SWEEP == FALSE
AZ_SWEEP_WIDTH_DEG == 170000
UPDATE_HZ == 25
PAN_RATE_DEG_S == 6000
TILT_RATE_DEG_S == 1500
ENABLE_THRESHOLD == TRUE
AZ_SEND_THRESHOLD_DEG == 80
EL_SEND_THRESHOLD_DEG == 80
PASS_TIME_MULTIPLIER == 1
CMD_AZ == 75
CMD_EL == 77
MIN_MINUTES == 5

\* ------------------------------------------------------------------------
\* Bounds of the model
\* ------------------------------------------------------------------------
NumCallers == 1
MaxWorkers == 2
MaxCalls == 3
ClockStep == 150

Callers == 1..NumCallers
Workers == 1..MaxWorkers

\* Arguments of start_pass offered by the request threads.
MinutesSet == {4, 5}

\* Cap on the ports a single enumeration returns.
PortLists ==
  { <<>>,
    << [device |-> "COM3", kw |-> TRUE] >>,
    << [device |-> "COM1", kw |-> FALSE], [device |-> "COM3", kw |-> TRUE] >> }

\* Commanded (az, el) pairs the worker may transmit during a pass.
TrajSamples == { <<175000, 55000>> }

\* Inputs of the encoder checked in SpecCodec.
AddrSet == {0, 1, 2, 127, 128, 255}
Cmd2Set == {0, 75, 77, 128, 255}
AngleSet ==
  { -1000, -15, -6, -5, -4, 0, 4, 5, 6, 15, 25, 2555, 2565, 32000, 175000,
    327675, 655344, 655345, 655346, 655350, 655354, 655355, 655356, 655365,
    700000 }

VARIABLES
  lock,        \* holder of self._lock
  ser_open,    \* self._ser is set and open
  stop_event,  \* self._stop_event
  status,      \* self.status
  cpc,         \* request thread: position in its handler
  ccmd,        \* request thread: the command it is executing
  cerr,        \* request thread: the exception in flight
  wpc,         \* worker thread: position in _run_pass_worker
  wmin,        \* worker thread: its minutes argument
  elapsed,     \* worker thread: time.time() - t0
  wt,          \* worker thread: local t of the current tick
  wfirst,      \* worker thread: last_sent_az is None
  werr,        \* worker thread: the exception caught by its handler
  wmsg,        \* worker thread: value computed for status.message
  burst,       \* payloads written so far during the current lock hold
  lastPos,     \* most recent absolute-position payload on the wire
  calls,       \* summary of the commands issued so far
  cancelReq,   \* workers whose pass got a stop/home request under the lock
  enc_in,      \* encoder under test: its arguments
  enc_out,     \* encoder under test: its result
  enum_ports,  \* port resolver under test: list_ports.comports()
  resolved,    \* port resolver under test: what find_port_auto returned
  shaper,      \* motion shaper under test: the locals of one tick
  sweep        \* compute_pass_bounds under test: configuration and result

vars == << lock, ser_open, stop_event, status, cpc, ccmd, cerr, wpc, wmin,
           elapsed, wt, wfirst, werr, wmsg, burst, lastPos, calls, cancelReq,
           enc_in, enc_out, enum_ports, resolved, shaper, sweep >>

ctlVars == << lock, ser_open, stop_event, status, cpc, ccmd, cerr, wpc, wmin,
              elapsed, wt, wfirst, werr, wmsg, burst, lastPos, calls,
              cancelReq >>

\* ------------------------------------------------------------------------
\* Helpers: math + frames
\* ------------------------------------------------------------------------
Max(a, b) == IF a >= b THEN a ELSE b
Min(a, b) == IF a <= b THEN a ELSE b

clamp(v, lo, hi) == Max(lo, Min(hi, v))

\* int(round(angle_deg * 100.0)): Python rounds halves to the even integer.
\* m is the angle in 0.001 degree, so angle_deg * 100 = m / 10.
RoundCenti_m(m) == m \div 100
RoundCenti(m) ==
  LET q == m \div 10
      r == m % 10
  IN  IF r < 5 THEN q
      ELSE IF r > 5 THEN q + 1
      ELSE IF q % 2 = 0 THEN q ELSE q + 1

\* (addr + cmd1 + cmd2 + d1 + d2) & 0xFF
ChecksumOf_m(addr, cmd1, cmd2, d1, d2) == (addr + cmd1 + cmd2 + d1 + d2) % 128
ChecksumOf(addr, cmd1, cmd2, d1, d2) == (addr + cmd1 + cmd2 + d1 + d2) % 256

\* value = max(0, min(65535, value))
Saturate_m(value) == value % 65536
Saturate(value) == Max(0, Min(65535, value))

pelco_abs_frame(addr, cmd2, angle) ==
  LET value == Saturate(RoundCenti(angle))
      d1 == (value \div 256) % 256
      d2 == value % 256
      cmd1 == 0
  IN  << 255, addr % 256, cmd1, cmd2 % 256, d1, d2,
         ChecksumOf(addr, cmd1, cmd2, d1, d2) >>

\* The frame built inline by _stop_frames.
StopFrame == << 255, ADDR, 0, 0, 0, 0, (ADDR + 0) % 256 >>

\* _home_payload: the azimuth frame followed by the elevation frame.
HomePayload ==
  pelco_abs_frame(ADDR, CMD_AZ, AZ_HOME_DEG) \o
  pelco_abs_frame(ADDR, CMD_EL, EL_HORIZON_DEG)

TrajPayload(p) ==
  pelco_abs_frame(ADDR, CMD_AZ, p[1]) \o pelco_abs_frame(ADDR, CMD_EL, p[2])

\* find_port_auto: first port whose description holds the keyword, else the
\* only port, else none.  "" stands for None.
RECURSIVE FirstKw(_)
FirstKw(ports) ==
  IF ports = <<>> THEN ""
  ELSE IF Head(ports).kw THEN Head(ports).device
  ELSE FirstKw(Tail(ports))

find_port_auto(ports) ==
  IF ports = <<>> THEN ""
  ELSE IF FirstKw(ports) # "" THEN FirstKw(ports)
  ELSE IF Len(ports) = 1 THEN ports[1].device
  ELSE ""

\* The port _ensure_serial settles on (PORT_OVERRIDE is None); "" when it
\* raises "No serial ports found".
ResolvePort(ports) ==
  IF find_port_auto(ports) # "" THEN find_port_auto(ports)
  ELSE IF ports # <<>> THEN ports[1].device
  ELSE ""

\* T = max(5.0, minutes * 60.0) * max(0.5, PASS_TIME_MULTIPLIER)
PassSeconds(minutes) ==
  (Max(5, minutes * 60) * Max(1, 2 * PASS_TIME_MULTIPLIER)) \div 2

\* clamp(t / T, 0.0, 1.0), in 1/1000
ProgressOf(t, T) == clamp((t * 1000) \div T, 0, 1000)

\* ------------------------------------------------------------------------
\* Helpers: the arithmetic of the motion shaper
\* A commanded angle is the mixed fraction i + r/d (0 <= r < d) of 0.001
\* degree; a whole number n is [i |-> n, r |-> 0, d |-> 1].
\* ------------------------------------------------------------------------
Abs(x) == IF x < 0 THEN -x ELSE x

QInt(n) == [i |-> n, r |-> 0, d |-> 1]
Q(n, d) ==
  IF n % d = 0 THEN QInt(n \div d)
  ELSE [i |-> n \div d, r |-> n % d, d |-> d]
QAddInt(q, n) == [q EXCEPT !.i = @ + n]
QLeInt(q, b) == q.i < b \/ (q.i = b /\ q.r = 0)
QGeInt(q, b) == q.i >= b
QAbsLeInt(q, b) == QLeInt(q, b) /\ QGeInt(q, -b)
QAbsGeInt(q, b) == QGeInt(q, b) \/ QLeInt(q, -b)

\* clamp(v, lo, hi) for a mixed fraction v and whole bounds
clampQ(v, lo, hi) ==
  IF ~QGeInt(v, lo) THEN QInt(lo)
  ELSE IF ~QLeInt(v, hi) THEN QInt(hi)
  ELSE v

\* int(round(angle_deg * 100.0)) for a mixed fraction of 0.001 degree
RoundCentiQ(q) ==
  LET t == q.i \div 10
      u == q.i % 10
  IN  IF u < 5 THEN t
      ELSE IF u > 5 \/ q.r > 0 THEN t + 1
      ELSE IF t % 2 = 0 THEN t ELSE t + 1

\* pelco_abs_frame(addr, cmd2, angle_deg) for a mixed fraction
pelco_abs_frame_q(addr, cmd2, q) ==
  LET value == Saturate(RoundCentiQ(q))
      d1 == (value \div 256) % 256
      d2 == value % 256
      cmd1 == 0
  IN  << 255, addr % 256, cmd1, cmd2 % 256, d1, d2,
         ChecksumOf(addr, cmd1, cmd2, d1, d2) >>

\* dt = 1.0 / max(5.0, UPDATE_HZ); max_step = rate * dt
max_step_az == PAN_RATE_DEG_S \div Max(5, UPDATE_HZ)
max_step_el == TILT_RATE_DEG_S \div Max(5, UPDATE_HZ)

\* min(k, n / d) for fractions with positive denominators
KMin(k, n, d) == IF n * k.d < k.n * d THEN [n |-> n, d |-> d] ELSE k

\* k = 1.0; if abs(d_az) > 1e-9: k = min(k, max_step_az / abs(d_az));
\* if abs(d_el) > 1e-9: k = min(k, max_step_el / abs(d_el));
\* k = clamp(k, 0.0, 1.0).  On the 0.001 degree grid abs(d) > 1e-9 is
\* d # 0, and a k built this way is already in (0, 1].
StepFactor_m(d_az, d_el) ==
  IF d_az # 0 THEN KMin([n |-> 1, d |-> 1], max_step_az, Abs(d_az))
  ELSE [n |-> 1, d |-> 1]
StepFactor(d_az, d_el) ==
  LET k0 == [n |-> 1, d |-> 1]
      k1 == IF d_az # 0 THEN KMin(k0, max_step_az, Abs(d_az)) ELSE k0
      k2 == IF d_el # 0 THEN KMin(k1, max_step_el, Abs(d_el)) ELSE k1
  IN  k2

\* cmd + k * d_az, cmd + k * d_el
Stepped(cmd, k, d) == QAddInt(Q(k.n * d, k.d), cmd)

\* last_sent_az is None
NoneSent == <<>>

\* send_pair = True; if ENABLE_THRESHOLD and last_sent is not None:
\* send_pair = (da >= AZ_SEND_THRESHOLD_DEG) or (de >= EL_SEND_THRESHOLD_DEG)
\* (last holds whole numbers of 0.001 degree when this is evaluated)
SendDecision_m(cmd_az, cmd_el, last) ==
  IF ENABLE_THRESHOLD /\ last # NoneSent
  THEN /\ QAbsGeInt(QAddInt(cmd_az, -last[1].i), AZ_SEND_THRESHOLD_DEG)
       /\ QAbsGeInt(QAddInt(cmd_el, -last[2].i), EL_SEND_THRESHOLD_DEG)
  ELSE TRUE
SendDecision(cmd_az, cmd_el, last) ==
  IF ENABLE_THRESHOLD /\ last # NoneSent
  THEN \/ QAbsGeInt(QAddInt(cmd_az, -last[1].i), AZ_SEND_THRESHOLD_DEG)
       \/ QAbsGeInt(QAddInt(cmd_el, -last[2].i), EL_SEND_THRESHOLD_DEG)
  ELSE TRUE

\* pelco_abs_frame(ADDR, 0x4B, cmd_az) + pelco_abs_frame(ADDR, 0x4D, cmd_el)
PairPayload_m(cmd_az, cmd_el) ==
  pelco_abs_frame_q(ADDR, CMD_AZ, cmd_el) \o
  pelco_abs_frame_q(ADDR, CMD_EL, cmd_az)
PairPayload(cmd_az, cmd_el) ==
  pelco_abs_frame_q(ADDR, CMD_AZ, cmd_az) \o
  pelco_abs_frame_q(ADDR, CMD_EL, cmd_el)

\* The shaper's locals while no tick is under test.
IdleShaper ==
  [ stage |-> "idle", prev_az |-> 0, prev_el |-> 0, filt_az |-> 0,
    filt_el |-> 0, cmd_az |-> QInt(0), cmd_el |-> QInt(0),
    last0 |-> NoneSent, last_sent |-> NoneSent, send_pair |-> FALSE,
    out |-> <<>> ]

ShaperIdle == shaper = IdleShaper

\* ------------------------------------------------------------------------
\* Helpers: the sweep bounds
\* ------------------------------------------------------------------------
\* The module globals compute_pass_bounds reads, as configured.
PassConfig ==
  [ centered |-> USE_CENTERED_SWEEP, start |-> AZ_START_DEG,
    end |-> AZ_END_DEG, width |-> AZ_SWEEP_WIDTH_DEG ]

\* compute_pass_bounds() under the configuration cfg: the pair (a0, a1).
\* half = AZ_SWEEP_WIDTH_DEG / 2.0 is exact for the widths used, which are
\* even numbers of 0.001 degree.
compute_pass_bounds(cfg) ==
  LET half == cfg.width \div 2
      r0 == IF ~cfg.centered THEN cfg.start ELSE AZ_HOME_DEG - half
      r1 == IF ~cfg.centered THEN cfg.end ELSE AZ_HOME_DEG + half
      a0 == clamp(r0, AZ_MIN_SAFE, AZ_MAX_SAFE)
      a1 == clamp(r1, AZ_MIN_SAFE, AZ_MAX_SAFE)
  IN  IF a1 <= a0 THEN << a0, Min(AZ_MAX_SAFE, a0 + 5000) >>
      ELSE << a0, a1 >>

\* No configuration is under test.
IdleSweep == [ stage |-> "idle", cfg |-> PassConfig, out |-> << 0, 0 >> ]

SweepIdle == sweep = IdleSweep

\* ------------------------------------------------------------------------
\* Texts
\* ------------------------------------------------------------------------
MsgIdle == "Idle"
MsgStopReq == "Stop requested"
MsgHoming == "Homing fast (North + Horizon)"
MsgRunning == "Running pass"
MsgStopped == "Stopped"
MsgDone == "Done"

ErrNoPorts == "No serial ports found. Plug in USB-RS485 adapter and try again."
ErrAlready == "Pass is already running."
ErrMinutes == "minimum demo time is 5 minutes"
ErrWrite == "serial write failed"

NoThread == [kind |-> "none", id |-> 0]
CallerId(c) == [kind |-> "caller", id |-> c]
WorkerId(w) == [kind |-> "worker", id |-> w]


\* ------------------------------------------------------------------------
\* Initial state: PelcoController.__init__ and Status()
\* ------------------------------------------------------------------------
NoCmd == [op |-> "none", minutes |-> 0]

CtlInit ==
  /\ lock = NoThread
  /\ ser_open = FALSE
  /\ stop_event = FALSE
  /\ status = [running |-> FALSE, message |-> MsgIdle, progress |-> 0,
               port |-> "", last_error |-> ""]
  /\ cpc = [c \in Callers |-> "idle"]
  /\ ccmd = [c \in Callers |-> NoCmd]
  /\ cerr = [c \in Callers |-> ""]
  /\ wpc = [w \in Workers |-> "none"]
  /\ wmin = [w \in Workers |-> 0]
  /\ elapsed = [w \in Workers |-> 0]
  /\ wt = [w \in Workers |-> 0]
  /\ wfirst = [w \in Workers |-> TRUE]
  /\ werr = [w \in Workers |-> ""]
  /\ wmsg = [w \in Workers |-> ""]
  /\ burst = <<>>
  /\ lastPos = <<>>
  /\ calls = [n |-> 0, cancels |-> "none"]
  /\ cancelReq = {}

\* The functions under test are idle in the controller's specification.
EncIdle ==
  /\ enc_in = [addr |-> ADDR, cmd2 |-> CMD_AZ, angle |-> AZ_HOME_DEG]
  /\ enc_out = <<>>

NoChoice == [stage |-> "none", port |-> ""]

PortsIdle ==
  /\ enum_ports = <<>>
  /\ resolved = NoChoice

Init ==
  /\ CtlInit
  /\ EncIdle
  /\ PortsIdle
  /\ ShaperIdle
  /\ SweepIdle

\* ------------------------------------------------------------------------
\* Shared pieces of the handlers
\* ------------------------------------------------------------------------
\* Positions of a worker between its spawn and its "running = False".
RunningPcs ==
  { "init_lock", "init_body", "init_rel", "top", "prog", "send_lock",
    "send_write", "send_rel", "fin_lock", "fin_body", "fin_rel", "except",
    "f_run" }

\* Positions inside the tick loop, where time.time() - t0 is read.
LoopPcs == { "top", "prog", "send_lock", "send_write", "send_rel" }

\* Positions from the spawn to the exit of the tick loop.
PassPcs == { "init_lock", "init_body", "init_rel" } \cup LoopPcs

\* The worker's pass has not yet reached its duration.
PassActive(w) ==
  /\ wpc[w] \in PassPcs
  /\ elapsed[w] < PassSeconds(wmin[w])

Rep(p, k) == [i \in 1..k |-> p]

\* The most recent absolute-position payload once ps has been written.
LastPosAfter(ps) ==
  IF \E i \in 1..Len(ps) : Len(ps[i]) = 14
  THEN ps[CHOOSE i \in 1..Len(ps) :
            /\ Len(ps[i]) = 14
            /\ \A j \in (i+1)..Len(ps) : Len(ps[j]) # 14]
  ELSE lastPos

\* self._ser.write(payload); self._ser.flush() for each payload of ps
Wrote(ps) ==
  /\ burst' = burst \o ps
  /\ lastPos' = LastPosAfter(ps)

\* The payloads ps reached the wire, then a write raised and the exception
\* left the locked block.
WroteThenRaised(ps) ==
  /\ burst' = <<>>
  /\ lastPos' = LastPosAfter(ps)

\* The lock is released: the hold's record of writes ends with it.
Release ==
  /\ lock' = NoThread
  /\ burst' = <<>>

\* _ensure_serial for the ports the system enumerates: the error it raises
\* ("" when none) and the port it leaves in status.port.
EnsureOutcome_m(ports) ==
  IF ResolvePort(ports) = "" THEN [err |-> ErrNoPorts, port |-> ""]
  ELSE [err |-> "", port |-> ResolvePort(ports)]
EnsureOutcome(ports) ==
  IF ser_open THEN [err |-> "", port |-> status.port]
  ELSE IF ResolvePort(ports) = "" THEN [err |-> ErrNoPorts, port |-> ""]
  ELSE [err |-> "", port |-> ResolvePort(ports)]

\* The frames of the handlers' sequences, in the order they are written.
StopSeq == Rep(StopFrame, 2)
HomeSeq_m == Rep(StopFrame, 2) \o Rep(HomePayload, 2)
HomeSeq == Rep(StopFrame, 2) \o Rep(HomePayload, 3)
InitSeq == Rep(StopFrame, 2) \o << HomePayload >>
FinSeq_m == Rep(StopFrame, 2) \o Rep(HomePayload, 3)
FinSeq == Rep(StopFrame, 2) \o Rep(HomePayload, 3) \o Rep(StopFrame, 1)

\* An exception leaves the handler's "with self._lock" block.
CallerRaise_m(c, e) ==
  /\ lock' = lock
  /\ cerr' = [cerr EXCEPT ![c] = e]
  /\ cpc' = [cpc EXCEPT ![c] = "handler"]
CallerRaise(c, e) ==
  /\ lock' = NoThread
  /\ cerr' = [cerr EXCEPT ![c] = e]
  /\ cpc' = [cpc EXCEPT ![c] = "handler"]

CallerGoto(c, pc) == cpc' = [cpc EXCEPT ![c] = pc]

CallerReturn(c) ==
  /\ cpc' = [cpc EXCEPT ![c] = "idle"]
  /\ ccmd' = [ccmd EXCEPT ![c] = NoCmd]

workerVars == << wpc, wmin, elapsed, wt, wfirst, werr, wmsg >>
wireVars == << burst, lastPos >>
encVars == << enc_in, enc_out >>
portVars == << enum_ports, resolved >>
pureVars == << encVars, portVars, shaper, sweep >>

\* ------------------------------------------------------------------------
\* Request threads: api_home / api_stop / api_start
\* ------------------------------------------------------------------------
\* A request arrives; idle request threads are interchangeable, the one
\* with the least number serves it.
CanServe(c) ==
  /\ cpc[c] = "idle"
  /\ \A d \in Callers : cpc[d] = "idle" => c <= d
  /\ calls.n < MaxCalls

\* calls.cancels: "none" while no stop or home was issued; "stop_in_pass"
\* when the only one so far is a stop() issued while a pass was within its
\* duration; "other" in every other case.
CallHome(c) ==
  /\ CanServe(c)
  /\ ccmd' = [ccmd EXCEPT ![c] = [op |-> "home", minutes |-> 0]]
  /\ CallerGoto(c, "home_lock")
  /\ calls' = [n |-> calls.n + 1, cancels |-> "other"]
  /\ UNCHANGED << lock, ser_open, stop_event, status, cerr, workerVars,
                  wireVars, cancelReq, pureVars >>

CallStop(c) ==
  /\ CanServe(c)
  /\ ccmd' = [ccmd EXCEPT ![c] = [op |-> "stop", minutes |-> 0]]
  /\ CallerGoto(c, "stop_lock")
  /\ calls' = [n |-> calls.n + 1,
               cancels |-> IF /\ calls.cancels = "none"
                              /\ \E w \in Workers : PassActive(w)
                           THEN "stop_in_pass" ELSE "other"]
  /\ UNCHANGED << lock, ser_open, stop_event, status, cerr, workerVars,
                  wireVars, cancelReq, pureVars >>

\* if minutes < 5.0
InvalidMinutes_m(m) == m < MIN_MINUTES - 1
InvalidMinutes(m) == m < MIN_MINUTES

\* api_start calls start_pass(minutes); the duration check precedes
\* "with self._lock" and raises ValueError.
CallStart(c) ==
  /\ CanServe(c)
  /\ \E m \in MinutesSet :
       /\ ccmd' = [ccmd EXCEPT ![c] = [op |-> "start", minutes |-> m]]
       /\ IF InvalidMinutes(m)
          THEN /\ cerr' = [cerr EXCEPT ![c] = ErrMinutes]
               /\ CallerGoto(c, "handler")
          ELSE /\ CallerGoto(c, "start_lock")
               /\ UNCHANGED cerr
  /\ calls' = [calls EXCEPT !.n = @ + 1]
  /\ UNCHANGED << lock, ser_open, stop_event, status, workerVars, wireVars,
                  cancelReq, pureVars >>

\* except Exception as e: controller.status.last_error = str(e)
Handler(c) ==
  /\ cpc[c] = "handler"
  /\ status' = [status EXCEPT !.last_error = cerr[c]]
  /\ cerr' = [cerr EXCEPT ![c] = ""]
  /\ CallerReturn(c)
  /\ UNCHANGED << lock, ser_open, stop_event, workerVars, wireVars, calls,
                  cancelReq, pureVars >>

\* self._stop_event.set() under the lock; cancelReq notes the workers
\* that are in their pass at that moment.
SetEvent ==
  /\ stop_event' = TRUE
  /\ cancelReq' = cancelReq \cup { w \in Workers : wpc[w] \in PassPcs }

\* ---- stop() ----
\* with self._lock: self._stop_event.set()
StopLock(c) ==
  /\ cpc[c] = "stop_lock"
  /\ lock = NoThread
  /\ lock' = CallerId(c)
  /\ SetEvent
  /\ CallerGoto(c, "stop_body")
  /\ UNCHANGED << ser_open, status, ccmd, cerr, workerVars, wireVars, calls,
                  pureVars >>

\* self._ensure_serial(); self._stop_frames(repeats=2)
StopBody(c) ==
  /\ cpc[c] = "stop_body"
  /\ \E ports \in PortLists, n \in 0..Len(StopSeq) :
       LET o == EnsureOutcome(ports) IN
       IF o.err # ""
       THEN /\ CallerRaise(c, o.err)
            /\ UNCHANGED << ser_open, status, wireVars >>
       ELSE /\ ser_open' = TRUE
            /\ status' = [status EXCEPT !.port = o.port]
            /\ IF n < Len(StopSeq)
               THEN /\ CallerRaise(c, ErrWrite)
                    /\ WroteThenRaised(SubSeq(StopSeq, 1, n))
               ELSE /\ Wrote(StopSeq)
                    /\ CallerGoto(c, "stop_rel")
                    /\ UNCHANGED << lock, cerr >>
  /\ UNCHANGED << stop_event, ccmd, workerVars, calls, cancelReq, pureVars >>


\* the "with" block of stop() ends
StopRel(c) ==
  /\ cpc[c] = "stop_rel"
  /\ Release
  /\ CallerGoto(c, "stop_msg")
  /\ UNCHANGED << ser_open, stop_event, status, ccmd, cerr, workerVars,
                  lastPos, calls, cancelReq, pureVars >>

\* self.status.message = "Stop requested"
StopMsg(c) ==
  /\ cpc[c] = "stop_msg"
  /\ status' = [status EXCEPT !.message = MsgStopReq]
  /\ CallerReturn(c)
  /\ UNCHANGED << lock, ser_open, stop_event, cerr, workerVars, wireVars,
                  calls, cancelReq, pureVars >>

\* ---- home_fast() ----
\* with self._lock: self._ensure_serial(); self._stop_event.set()
HomeLock(c) ==
  /\ cpc[c] = "home_lock"
  /\ lock = NoThread
  /\ \E ports \in PortLists :
       LET o == EnsureOutcome(ports) IN
       IF o.err # ""
       THEN /\ cerr' = [cerr EXCEPT ![c] = o.err]
            /\ CallerGoto(c, "handler")
            /\ UNCHANGED << lock, ser_open, status, stop_event, cancelReq >>
       ELSE /\ lock' = CallerId(c)
            /\ ser_open' = TRUE
            /\ status' = [status EXCEPT !.port = o.port]
            /\ SetEvent
            /\ CallerGoto(c, "home_write")
            /\ UNCHANGED cerr
  /\ UNCHANGED << ccmd, workerVars, wireVars, calls, pureVars >>

\* self._stop_frames(repeats=2); three times self._write_payload(payload)
HomeWrite(c) ==
  /\ cpc[c] = "home_write"
  /\ \E n \in 0..Len(HomeSeq) :
       IF n < Len(HomeSeq)
       THEN /\ CallerRaise(c, ErrWrite)
            /\ WroteThenRaised(SubSeq(HomeSeq, 1, n))
       ELSE /\ Wrote(HomeSeq)
            /\ CallerGoto(c, "home_msg")
            /\ UNCHANGED << lock, cerr >>
  /\ UNCHANGED << ser_open, stop_event, status, ccmd, workerVars, calls,
                  cancelReq, pureVars >>

\* self.status.message = "Homing fast (North + Horizon)"
HomeMsg(c) ==
  /\ cpc[c] = "home_msg"
  /\ status' = [status EXCEPT !.message = MsgHoming]
  /\ CallerGoto(c, "home_prog")
  /\ UNCHANGED << lock, ser_open, stop_event, ccmd, cerr, workerVars,
                  wireVars, calls, cancelReq, pureVars >>

\* self.status.progress = 0.0; the "with" block ends
HomeProg(c) ==
  /\ cpc[c] = "home_prog"
  /\ status' = [status EXCEPT !.progress = 0]
  /\ Release
  /\ CallerReturn(c)
  /\ UNCHANGED << ser_open, stop_event, cerr, workerVars, lastPos, calls,
                  cancelReq, pureVars >>

\* ---- start_pass(minutes), after the duration check ----
\* if self.status.running
AlreadyRunning_m == FALSE
AlreadyRunning == status.running

\* with self._lock: self._ensure_serial(); if self.status.running: raise
StartLock_m(c) ==
  /\ cpc[c] = "start_lock"
  /\ lock = NoThread
  /\ stop_event' = FALSE
  /\ \E ports \in PortLists :
       LET o == EnsureOutcome(ports) IN
       IF o.err # ""
       THEN /\ cerr' = [cerr EXCEPT ![c] = o.err]
            /\ CallerGoto(c, "handler")
            /\ UNCHANGED << lock, ser_open, status >>
       ELSE /\ ser_open' = TRUE
            /\ status' = [status EXCEPT !.port = o.port]
            /\ IF AlreadyRunning
               THEN /\ cerr' = [cerr EXCEPT ![c] = ErrAlready]
                    /\ CallerGoto(c, "handler")
                    /\ UNCHANGED lock
               ELSE /\ lock' = CallerId(c)
                    /\ CallerGoto(c, "start_clear")
                    /\ UNCHANGED cerr
  /\ UNCHANGED << ccmd, workerVars, wireVars, calls, cancelReq, pureVars >>
StartLock(c) ==
  /\ cpc[c] = "start_lock"
  /\ lock = NoThread
  /\ \E ports \in PortLists :
       LET o == EnsureOutcome(ports) IN
       IF o.err # ""
       THEN /\ cerr' = [cerr EXCEPT ![c] = o.err]
            /\ CallerGoto(c, "handler")
            /\ UNCHANGED << lock, ser_open, status >>
       ELSE /\ ser_open' = TRUE
            /\ status' = [status EXCEPT !.port = o.port]
            /\ IF AlreadyRunning
               THEN /\ cerr' = [cerr EXCEPT ![c] = ErrAlready]
                    /\ CallerGoto(c, "handler")
                    /\ UNCHANGED lock
               ELSE /\ lock' = CallerId(c)
                    /\ CallerGoto(c, "start_clear")
                    /\ UNCHANGED cerr
  /\ UNCHANGED << stop_event, ccmd, workerVars, wireVars, calls, cancelReq,
                  pureVars >>

\* self._stop_event.clear()
StartClear_m(c) ==
  /\ cpc[c] = "start_clear"
  /\ CallerGoto(c, "start_run")
  /\ UNCHANGED << lock, ser_open, stop_event, status, ccmd, cerr, workerVars,
                  wireVars, calls, cancelReq, pureVars >>
StartClear(c) ==
  /\ cpc[c] = "start_clear"
  /\ stop_event' = FALSE
  /\ CallerGoto(c, "start_run")
  /\ UNCHANGED << lock, ser_open, status, ccmd, cerr, workerVars, wireVars,
                  calls, cancelReq, pureVars >>

StartField(c, from, to, field, value) ==
  /\ cpc[c] = from
  /\ status' = [status EXCEPT ![field] = value]
  /\ CallerGoto(c, to)
  /\ UNCHANGED << lock, ser_open, stop_event, ccmd, cerr, workerVars,
                  wireVars, calls, cancelReq, pureVars >>

\* self.status.running = True
StartRun(c) == StartField(c, "start_run", "start_msg", "running", TRUE)

\* self.status.message = f"Running pass: {minutes:g} min"
StartMsg(c) == StartField(c, "start_msg", "start_prog", "message", MsgRunning)

\* self.status.progress = 0.0
StartProg(c) == StartField(c, "start_prog", "start_err", "progress", 0)

FreeSlots == { w \in Workers : wpc[w] = "none" }

\* self.status.last_error = ""; the worker thread is created and started;
\* the "with" block ends and start_pass returns.
StartSpawn(c) ==
  /\ cpc[c] = "start_err"
  /\ FreeSlots # {}
  /\ status' = [status EXCEPT !.last_error = ""]
  /\ LET w == CHOOSE x \in FreeSlots : \A y \in FreeSlots : x <= y IN
       /\ wpc' = [wpc EXCEPT ![w] = "init_lock"]
       /\ wmin' = [wmin EXCEPT ![w] = ccmd[c].minutes]
  /\ Release
  /\ CallerReturn(c)
  /\ UNCHANGED << ser_open, stop_event, cerr, elapsed, wt, wfirst, werr,
                  wmsg, lastPos, calls, cancelReq, pureVars >>


\* ------------------------------------------------------------------------
\* Worker thread: _run_pass_worker(minutes)
\* Live workers occupy the slots 1..k in the order of their spawn.
\* ------------------------------------------------------------------------
WorkerGoto(w, pc) == wpc' = [wpc EXCEPT ![w] = pc]

\* The worker leaves the tick loop (or never enters it): t0, last_sent and
\* the other locals of the loop are dead from here on.
LeaveLoop(w) ==
  /\ elapsed' = [elapsed EXCEPT ![w] = 0]
  /\ wfirst' = [wfirst EXCEPT ![w] = TRUE]
  /\ cancelReq' = cancelReq \ {w}

\* An exception leaves a "with self._lock" block of the worker.
WorkerRaise_m(w, e) ==
  /\ lock' = lock
  /\ werr' = [werr EXCEPT ![w] = e]
  /\ WorkerGoto(w, "except")
  /\ LeaveLoop(w)
WorkerRaise(w, e) ==
  /\ lock' = NoThread
  /\ werr' = [werr EXCEPT ![w] = e]
  /\ WorkerGoto(w, "except")
  /\ LeaveLoop(w)

WorkerLock_m(w, from, to) ==
  /\ wpc[w] = from
  /\ lock' = WorkerId(w)
  /\ WorkerGoto(w, to)
  /\ UNCHANGED << ser_open, stop_event, status, cpc, ccmd, cerr, wmin,
                  elapsed, wt, wfirst, werr, wmsg, wireVars, calls, cancelReq,
                  pureVars >>
WorkerLock(w, from, to) ==
  /\ wpc[w] = from
  /\ lock = NoThread
  /\ lock' = WorkerId(w)
  /\ WorkerGoto(w, to)
  /\ UNCHANGED << ser_open, stop_event, status, cpc, ccmd, cerr, wmin,
                  elapsed, wt, wfirst, werr, wmsg, wireVars, calls, cancelReq,
                  pureVars >>

\* The payloads of seq are written one by one inside a locked block; the
\* first n reach the wire and the next write raises when n < Len(seq).
WorkerWrite(w, from, to, seq) ==
  /\ wpc[w] = from
  /\ \E n \in 0..Len(seq) :
       IF n < Len(seq)
       THEN /\ WorkerRaise(w, ErrWrite)
            /\ WroteThenRaised(SubSeq(seq, 1, n))
       ELSE /\ Wrote(seq)
            /\ WorkerGoto(w, to)
            /\ UNCHANGED << lock, werr, elapsed, wfirst, cancelReq >>
  /\ UNCHANGED << ser_open, stop_event, status, cpc, ccmd, cerr, wmin, wt,
                  wmsg, calls, pureVars >>

\* with self._lock:
InitLock(w) == WorkerLock(w, "init_lock", "init_body")

\* self._ensure_serial(); self._stop_frames(repeats=2);
\* self._write_payload(self._home_payload())
InitBody(w) ==
  /\ wpc[w] = "init_body"
  /\ \E ports \in PortLists, n \in 0..Len(InitSeq) :
       LET o == EnsureOutcome(ports) IN
       IF o.err # ""
       THEN /\ WorkerRaise(w, o.err)
            /\ UNCHANGED << ser_open, status, wireVars >>
       ELSE /\ ser_open' = TRUE
            /\ status' = [status EXCEPT !.port = o.port]
            /\ IF n < Len(InitSeq)
               THEN /\ WorkerRaise(w, ErrWrite)
                    /\ WroteThenRaised(SubSeq(InitSeq, 1, n))
               ELSE /\ Wrote(InitSeq)
                    /\ WorkerGoto(w, "init_rel")
                    /\ UNCHANGED << lock, werr, elapsed, wfirst, cancelReq >>
  /\ UNCHANGED << stop_event, cpc, ccmd, cerr, wmin, wt, wmsg, calls,
                  pureVars >>

\* The block ends; time.sleep(0.6); T, dt, bounds; last_sent = None;
\* t0 = time.time()
InitRel(w) ==
  /\ wpc[w] = "init_rel"
  /\ Release
  /\ elapsed' = [elapsed EXCEPT ![w] = 0]
  /\ wfirst' = [wfirst EXCEPT ![w] = TRUE]
  /\ WorkerGoto(w, "top")
  /\ UNCHANGED << ser_open, stop_event, status, cpc, ccmd, cerr, wmin, wt,
                  werr, wmsg, lastPos, calls, cancelReq, pureVars >>

\* while True: if self._stop_event.is_set(): break
\* now = time.time(); t = now - t0; if t >= T: break
LoopTop(w) ==
  /\ wpc[w] = "top"
  /\ IF stop_event \/ elapsed[w] >= PassSeconds(wmin[w])
     THEN /\ WorkerGoto(w, "fin_lock")
          /\ LeaveLoop(w)
          /\ UNCHANGED wt
     ELSE /\ WorkerGoto(w, "prog")
          /\ wt' = [wt EXCEPT ![w] = elapsed[w]]
          /\ UNCHANGED << elapsed, wfirst, cancelReq >>
  /\ UNCHANGED << lock, ser_open, stop_event, status, cpc, ccmd, cerr, wmin,
                  werr, wmsg, wireVars, calls, pureVars >>

\* self.status.progress = clamp(t / T, 0.0, 1.0); then the tick pacing and
\* the shaping, which touch only locals: the tick is either skipped
\* (now < next_tick, or the pair is below both thresholds) or it sends.
\* The first tick of a pass (last_sent is None) is due and sends.
LoopProgress(w) ==
  /\ wpc[w] = "prog"
  /\ status' = [status EXCEPT
                  !.progress = ProgressOf(wt[w], PassSeconds(wmin[w]))]
  /\ wt' = [wt EXCEPT ![w] = 0]
  /\ \E send \in BOOLEAN :
       /\ wfirst[w] => send
       /\ WorkerGoto(w, IF send THEN "send_lock" ELSE "top")
  /\ UNCHANGED << lock, ser_open, stop_event, cpc, ccmd, cerr, wmin, elapsed,
                  wfirst, werr, wmsg, wireVars, calls, cancelReq, pureVars >>

\* if self._stop_event.is_set() (the check made under the lock)
CancelSeen == stop_event

\* with self._lock: if self._stop_event.is_set(): break
SendLock(w) ==
  /\ wpc[w] = "send_lock"
  /\ lock = NoThread
  /\ IF CancelSeen
     THEN /\ WorkerGoto(w, "fin_lock")
          /\ LeaveLoop(w)
          /\ UNCHANGED lock
     ELSE /\ lock' = WorkerId(w)
          /\ WorkerGoto(w, "send_write")
          /\ UNCHANGED << elapsed, wfirst, cancelReq >>
  /\ UNCHANGED << ser_open, stop_event, status, cpc, ccmd, cerr, wmin, wt,
                  werr, wmsg, wireVars, calls, pureVars >>

\* self._write_payload(payload), the azimuth and elevation frames of the
\* commanded pair
SendWrite(w) ==
  \E p \in TrajSamples :
    WorkerWrite(w, "send_write", "send_rel", << TrajPayload(p) >>)

\* The block ends; last_sent_az = cmd_az; last_sent_el = cmd_el
SendRel(w) ==
  /\ wpc[w] = "send_rel"
  /\ Release
  /\ wfirst' = [wfirst EXCEPT ![w] = FALSE]
  /\ WorkerGoto(w, "top")
  /\ UNCHANGED << ser_open, stop_event, status, cpc, ccmd, cerr, wmin,
                  elapsed, wt, werr, wmsg, lastPos, calls, cancelReq,
                  pureVars >>

\* Finish: FAST HOME.  with self._lock:
FinLock(w) == WorkerLock(w, "fin_lock", "fin_body")

\* self._stop_frames(repeats=2); three times the home payload;
\* self._stop_frames(repeats=1)
FinBody(w) == WorkerWrite(w, "fin_body", "fin_rel", FinSeq)

FinRel(w) ==
  /\ wpc[w] = "fin_rel"
  /\ Release
  /\ WorkerGoto(w, "f_run")
  /\ UNCHANGED << ser_open, stop_event, status, cpc, ccmd, cerr, wmin,
                  elapsed, wt, wfirst, werr, wmsg, lastPos, calls, cancelReq,
                  pureVars >>

\* except Exception as e: self.status.last_error = str(e)
Except(w) ==
  /\ wpc[w] = "except"
  /\ status' = [status EXCEPT !.last_error = werr[w]]
  /\ WorkerGoto(w, "f_run")
  /\ UNCHANGED << lock, ser_open, stop_event, cpc, ccmd, cerr, wmin, elapsed,
                  wt, wfirst, werr, wmsg, wireVars, calls, cancelReq,
                  pureVars >>

\* finally: self.status.running = False
FinallyRunning(w) ==
  /\ wpc[w] = "f_run"
  /\ status' = [status EXCEPT !.running = FALSE]
  /\ werr' = [werr EXCEPT ![w] = ""]
  /\ WorkerGoto(w, "f_read")
  /\ UNCHANGED << lock, ser_open, stop_event, cpc, ccmd, cerr, wmin, elapsed,
                  wt, wfirst, wmsg, wireVars, calls, cancelReq, pureVars >>

\* "Stopped" if self._stop_event.is_set() else "Done"
FinalMessage_m == IF stop_event THEN MsgDone ELSE MsgStopped
FinalMessage == IF stop_event THEN MsgStopped ELSE MsgDone

\* The finally block evaluates the text of the message ...
FinallyRead(w) ==
  /\ wpc[w] = "f_read"
  /\ wmsg' = [wmsg EXCEPT ![w] = FinalMessage]
  /\ WorkerGoto(w, "f_msg")
  /\ UNCHANGED << lock, ser_open, stop_event, status, cpc, ccmd, cerr, wmin,
                  elapsed, wt, wfirst, werr, wireVars, calls, cancelReq,
                  pureVars >>

\* ... and stores it: self.status.message = ...
FinallyMsg(w) ==
  /\ wpc[w] = "f_msg"
  /\ status' = [status EXCEPT !.message = wmsg[w]]
  /\ wmsg' = [wmsg EXCEPT ![w] = ""]
  /\ WorkerGoto(w, "f_prog")
  /\ UNCHANGED << lock, ser_open, stop_event, cpc, ccmd, cerr, wmin, elapsed,
                  wt, wfirst, werr, wireVars, calls, cancelReq, pureVars >>

\* self.status.progress = 0.0
FinallyProgress(w) ==
  /\ wpc[w] = "f_prog"
  /\ status' = [status EXCEPT !.progress = 0]
  /\ WorkerGoto(w, "f_clear")
  /\ UNCHANGED << lock, ser_open, stop_event, cpc, ccmd, cerr, wmin, elapsed,
                  wt, wfirst, werr, wmsg, wireVars, calls, cancelReq,
                  pureVars >>

\* The slots once worker w has ended: the workers spawned after it move
\* down by one.
Shift(f, w, free) ==
  [i \in Workers |->
     IF i < w THEN f[i] ELSE IF i < MaxWorkers THEN f[i + 1] ELSE free]

\* self._stop_event.clear(); the thread ends
FinallyClear(w) ==
  /\ wpc[w] = "f_clear"
  /\ stop_event' = FALSE
  /\ wpc' = Shift(wpc, w, "none")
  /\ wmin' = Shift(wmin, w, 0)
  /\ elapsed' = Shift(elapsed, w, 0)
  /\ wt' = Shift(wt, w, 0)
  /\ wfirst' = Shift(wfirst, w, TRUE)
  /\ werr' = Shift(werr, w, "")
  /\ wmsg' = Shift(wmsg, w, "")
  /\ cancelReq' = { IF x > w THEN x - 1 ELSE x : x \in cancelReq \ {w} }
  /\ lock' = IF lock.kind = "worker" /\ lock.id > w
             THEN WorkerId(lock.id - 1) ELSE lock
  /\ UNCHANGED << ser_open, status, cpc, ccmd, cerr, wireVars, calls,
                  pureVars >>

\* The clock: time.time() advances for the workers inside the tick loop.
Tick ==
  /\ \E w \in Workers :
       wpc[w] \in LoopPcs /\ elapsed[w] < PassSeconds(wmin[w])
  /\ elapsed' = [w \in Workers |->
                   IF wpc[w] \in LoopPcs
                   THEN Min(elapsed[w] + ClockStep, PassSeconds(wmin[w]))
                   ELSE elapsed[w]]
  /\ UNCHANGED << lock, ser_open, stop_event, status, cpc, ccmd, cerr, wpc,
                  wmin, wt, wfirst, werr, wmsg, wireVars, calls, cancelReq,
                  pureVars >>

\* ------------------------------------------------------------------------
\* Specification of the controller
\* ------------------------------------------------------------------------
CallerStep(c) ==
  \/ CallHome(c) \/ CallStop(c) \/ CallStart(c) \/ Handler(c)
  \/ StopLock(c) \/ StopBody(c) \/ StopRel(c) \/ StopMsg(c)
  \/ HomeLock(c) \/ HomeWrite(c) \/ HomeMsg(c) \/ HomeProg(c)
  \/ StartLock(c) \/ StartClear(c) \/ StartRun(c) \/ StartMsg(c)
  \/ StartProg(c) \/ StartSpawn(c)

WorkerStep(w) ==
  \/ InitLock(w) \/ InitBody(w) \/ InitRel(w)
  \/ LoopTop(w) \/ LoopProgress(w)
  \/ SendLock(w) \/ SendWrite(w) \/ SendRel(w)
  \/ FinLock(w) \/ FinBody(w) \/ FinRel(w)
  \/ Except(w)
  \/ FinallyRunning(w) \/ FinallyRead(w) \/ FinallyMsg(w)
  \/ FinallyProgress(w) \/ FinallyClear(w)

Next ==
  \/ \E c \in Callers : CallerStep(c)
  \/ \E w \in Workers : WorkerStep(w)
  \/ Tick

Spec == Init /\ [][Next]_vars

\* The steps of a request thread once its call has arrived.
CallerRun(c) ==
  \/ Handler(c)
  \/ StopLock(c) \/ StopBody(c) \/ StopRel(c) \/ StopMsg(c)
  \/ HomeLock(c) \/ HomeWrite(c) \/ HomeMsg(c) \/ HomeProg(c)
  \/ StartLock(c) \/ StartClear(c) \/ StartRun(c) \/ StartMsg(c)
  \/ StartProg(c) \/ StartSpawn(c)

\* Fair scheduling: a thread that can take a step is not kept from it for
\* ever, and time.time() advances while a worker is in its tick loop.  The
\* arrival of requests is not forced.
Fairness ==
  /\ \A c \in Callers : WF_vars(CallerRun(c))
  /\ \A w \in Workers : WF_vars(WorkerStep(w))
  /\ WF_vars(Tick)

FairSpec == Init /\ [][Next]_vars /\ Fairness


\* ------------------------------------------------------------------------
\* Specification of the encoder: pelco_abs_frame applied to arguments
\* drawn from AddrSet, Cmd2Set and AngleSet, and the stop frame.
\* ------------------------------------------------------------------------
CodecInit ==
  /\ CtlInit
  /\ enc_in \in [addr : AddrSet, cmd2 : Cmd2Set, angle : AngleSet]
  /\ enc_out = <<>>
  /\ PortsIdle
  /\ ShaperIdle
  /\ SweepIdle

Encode ==
  /\ enc_out = <<>>
  /\ enc_out' = pelco_abs_frame(enc_in.addr, enc_in.cmd2, enc_in.angle)
  /\ UNCHANGED << enc_in, ctlVars, portVars, shaper, sweep >>

\* The stop frame of _stop_frames: address ADDR, cmd2 = 0, data = 0.
EncodeStop ==
  /\ enc_out = <<>>
  /\ enc_in = [addr |-> ADDR, cmd2 |-> 0, angle |-> 0]
  /\ enc_out' = StopFrame
  /\ UNCHANGED << enc_in, ctlVars, portVars, shaper, sweep >>

CodecNext == Encode \/ EncodeStop

SpecCodec == CodecInit /\ [][CodecNext]_vars


\* ------------------------------------------------------------------------
\* Specification of the port resolver: find_port_auto and the fallback of
\* _ensure_serial applied to an enumeration of up to MaxPorts devices.
\* kw tells whether the description contains PORT_KEYWORD (lower-cased).
\* ------------------------------------------------------------------------
MaxPorts == 3
DeviceNames == { "COM1", "COM3", "COM4", "COM6" }

\* list(list_ports.comports()): distinct devices, in the system's order.
EnumLists ==
  UNION { { l \in [1..n -> [device : DeviceNames, kw : BOOLEAN]] :
              \A i, j \in 1..n : i # j => l[i].device # l[j].device } :
          n \in 0..MaxPorts }

PortsInit ==
  /\ CtlInit
  /\ EncIdle
  /\ enum_ports \in EnumLists
  /\ resolved = NoChoice
  /\ ShaperIdle
  /\ SweepIdle

\* port, ports = find_port_auto(PORT_KEYWORD)
FindPortAuto ==
  /\ resolved.stage = "none"
  /\ resolved' = [stage |-> "found", port |-> find_port_auto(enum_ports)]
  /\ UNCHANGED << ctlVars, encVars, enum_ports, shaper, sweep >>

\* The rest of _ensure_serial on a closed channel: the fallback to
\* ports[0].device, the error for an empty list, the open and status.port.
OpenPort ==
  /\ resolved.stage = "found"
  /\ ~ser_open
  /\ LET o == EnsureOutcome(enum_ports) IN
       /\ resolved' = [stage |-> IF o.err = "" THEN "opened" ELSE "failed",
                       port |-> resolved.port]
       /\ ser_open' = (o.err = "")
       /\ status' = [status EXCEPT !.port = o.port]
  /\ UNCHANGED << lock, stop_event, cpc, ccmd, cerr, workerVars, wireVars,
                  calls, cancelReq, encVars, enum_ports, shaper, sweep >>

PortsNext == FindPortAuto \/ OpenPort

SpecPorts == PortsInit /\ [][PortsNext]_vars

\* ------------------------------------------------------------------------
\* Specification of the motion shaper: one tick of the worker's loop from
\* the coordinated step to the write of the pair, for commands, filtered
\* targets and last-sent pairs drawn from the sets below.  The commands
\* and targets are inside the safe bounds, as the loop keeps them.
\* ------------------------------------------------------------------------
CmdAzSet == { 15000, 15100, 90000, 174880, 175000, 334900, 335000 }
CmdElSet == { 32000, 32030, 43000, 54950, 55000 }
FiltAzSet == { 15000, 15300, 90050, 90079, 90080, 90240, 90300, 175000,
               335000 }
FiltElSet == { 32000, 32060, 32100, 43050, 55000 }

\* last_sent relative to the command: offsets in 0.001 degree.
LastOffsets ==
  { << 0, 0 >>, << -79, 0 >>, << -80, 0 >>, << 0, -79 >>, << 0, -80 >>,
    << 160, 20 >>, << -1000, 0 >> }

LastSentOf(az, el, o) ==
  << QInt(clamp(az + o[1], AZ_MIN_SAFE, AZ_MAX_SAFE)),
     QInt(clamp(el + o[2], EL_HORIZON_DEG, EL_MAX_DEG)) >>

ShaperInit ==
  /\ CtlInit
  /\ EncIdle
  /\ PortsIdle
  /\ SweepIdle
  /\ \E az \in CmdAzSet, el \in CmdElSet, faz \in FiltAzSet,
        fel \in FiltElSet :
     \E last \in { NoneSent } \cup
                 { LastSentOf(az, el, o) : o \in LastOffsets } :
       shaper = [ stage |-> "tick", prev_az |-> az, prev_el |-> el,
                  filt_az |-> faz, filt_el |-> fel, cmd_az |-> QInt(az),
                  cmd_el |-> QInt(el), last0 |-> last, last_sent |-> last,
                  send_pair |-> FALSE, out |-> <<>> ]

\* Coordinated step: d = filt - cmd; k; cmd = clamp(cmd + k * d, bounds)
CoordinatedStep ==
  /\ shaper.stage = "tick"
  /\ LET d_az == shaper.filt_az - shaper.prev_az
         d_el == shaper.filt_el - shaper.prev_el
         k == StepFactor(d_az, d_el)
     IN  shaper' =
           [shaper EXCEPT
              !.stage = "stepped",
              !.cmd_az = clampQ(Stepped(shaper.prev_az, k, d_az),
                                AZ_MIN_SAFE, AZ_MAX_SAFE),
              !.cmd_el = clampQ(Stepped(shaper.prev_el, k, d_el),
                                EL_HORIZON_DEG, EL_MAX_DEG)]
  /\ UNCHANGED << ctlVars, encVars, portVars, sweep >>

\* Threshold decision (as a pair)
ThresholdDecision ==
  /\ shaper.stage = "stepped"
  /\ shaper' =
       [shaper EXCEPT
          !.stage = "decided",
          !.send_pair = SendDecision(shaper.cmd_az, shaper.cmd_el,
                                     shaper.last_sent)]
  /\ UNCHANGED << ctlVars, encVars, portVars, sweep >>

\* if send_pair: with self._lock: if self._stop_event.is_set(): break;
\* self._write_payload(payload); then last_sent = cmd.  The stop event
\* may be found set, and the write may raise: both leave last_sent alone.
SendPair ==
  /\ shaper.stage = "decided"
  /\ shaper.send_pair
  /\ \E outcome \in { "sent", "cancelled", "failed" } :
       shaper' =
         IF outcome = "sent"
         THEN [shaper EXCEPT
                 !.stage = "sent",
                 !.out = PairPayload(shaper.cmd_az, shaper.cmd_el),
                 !.last_sent = << shaper.cmd_az, shaper.cmd_el >>]
         ELSE [shaper EXCEPT !.stage = outcome]
  /\ UNCHANGED << ctlVars, encVars, portVars, sweep >>

\* send_pair is false: the tick ends without a write
SkipSend ==
  /\ shaper.stage = "decided"
  /\ ~shaper.send_pair
  /\ shaper' = [shaper EXCEPT !.stage = "skipped"]
  /\ UNCHANGED << ctlVars, encVars, portVars, sweep >>

ShaperNext == CoordinatedStep \/ ThresholdDecision \/ SendPair \/ SkipSend

SpecShaper == ShaperInit /\ [][ShaperNext]_vars

\* ------------------------------------------------------------------------
\* Specification of the sweep bounds: compute_pass_bounds for start/end
\* pairs and for centered sweep widths drawn from the sets below.
\* ------------------------------------------------------------------------
AzConfigSet ==
  { 0, 10000, 15000, 90000, 175000, 260000, 333000, 335000, 340000,
    350000 }
WidthSet == { -20000, 0, 10000, 170000, 320000, 400000 }

PassConfigs ==
  { [ centered |-> FALSE, start |-> s, end |-> e,
      width |-> AZ_SWEEP_WIDTH_DEG ] : s \in AzConfigSet, e \in AzConfigSet }
  \cup
  { [ centered |-> TRUE, start |-> AZ_START_DEG, end |-> AZ_END_DEG,
      width |-> w ] : w \in WidthSet }

BoundsInit ==
  /\ CtlInit
  /\ EncIdle
  /\ PortsIdle
  /\ ShaperIdle
  /\ \E cfg \in PassConfigs :
       sweep = [ stage |-> "configured", cfg |-> cfg, out |-> << 0, 0 >> ]

\* az0, az1 = compute_pass_bounds()
ComputeBounds ==
  /\ sweep.stage = "configured"
  /\ sweep' = [sweep EXCEPT !.stage = "computed",
                            !.out = compute_pass_bounds(sweep.cfg)]
  /\ UNCHANGED << ctlVars, encVars, portVars, shaper >>

BoundsNext == ComputeBounds

SpecBounds == BoundsInit /\ [][BoundsNext]_vars

\* ------------------------------------------------------------------------
\* Properties
\* ------------------------------------------------------------------------
AllIdle == \A c \in Callers : cpc[c] = "idle"
NoWorker == \A w \in Workers : wpc[w] = "none"

\* Positions at which a thread holds the lock.
CallerLockedPcs ==
  { "stop_body", "stop_rel", "home_write", "home_msg", "home_prog",
    "start_clear", "start_run", "start_msg", "start_prog", "start_err" }
WorkerLockedPcs ==
  { "init_body", "init_rel", "send_write", "send_rel", "fin_body",
    "fin_rel" }

\* C1: start_pass checked while status.running is true ends with the
\* "already running" error and spawns no worker (the serial channel is
\* open whenever running is true, so no other error can precede it); at
\* most one worker is between its spawn and its "running = False".
C1_StartRejectedWhileRunning ==
  /\ [](status.running => ser_open)
  /\ [][\A c \in Callers :
          (cpc[c] = "start_lock" /\ cpc'[c] # "start_lock" /\ status.running)
          => /\ cpc'[c] = "handler"
             /\ cerr'[c] = ErrAlready
             /\ wpc' = wpc
             /\ status'.running]_vars
  /\ [](Cardinality({ w \in Workers : wpc[w] \in RunningPcs }) <= 1)

C1_Witness ==
  \E c \in Callers :
    /\ cpc[c] = "handler"
    /\ cerr[c] = ErrAlready
    /\ \E w \in Workers : wpc[w] \in RunningPcs

\* C2: a worker whose pass received a stop/home request under the lock
\* writes no trajectory pair afterwards (send_rel is reached only by
\* writing one).
C2_NoTrajectoryAfterCancel ==
  \A w \in Workers : wpc[w] = "send_rel" => w \notin cancelReq

\* C3: start_pass(5) succeeded, stop() was then called during the pass, no
\* other command was issued and nothing failed: once both have finished,
\* running is false, the message is "Stopped", progress is 0 and the home
\* pair is the last position on the wire.
C3_StopScenarioFinal ==
  ( /\ calls = [n |-> 2, cancels |-> "stop_in_pass"]
    /\ AllIdle
    /\ NoWorker
    /\ status.last_error = "" )
  => /\ ~status.running
     /\ status.message = MsgStopped
     /\ status.progress = 0
     /\ lastPos = HomePayload

\* C4: when start_pass returns successfully running is true and progress
\* is 0; with no stop and no home issued and no failure, once everything
\* has finished running is false and the message is "Done".
C4_StartThenDone ==
  /\ [][\A c \in Callers :
          (cpc[c] = "start_err" /\ cpc'[c] = "idle")
          => status'.running /\ status'.progress = 0]_vars
  /\ []( ( /\ calls.cancels = "none"
           /\ calls.n >= 1
           /\ AllIdle
           /\ NoWorker
           /\ status.last_error = "" )
         => ~status.running /\ status.message = MsgDone )

C4_Witness ==
  /\ calls.cancels = "none"
  /\ AllIdle
  /\ NoWorker
  /\ status.last_error = ""
  /\ status.message = MsgDone
  /\ lastPos = HomePayload

\* C5: start_pass with minutes < 5 raises the invalid-duration error
\* without taking the lock and without touching running, the workers, the
\* stop event, the serial channel or the wire.
C5_ShortPassRejected ==
  /\ [][\A c \in Callers :
          (cpc[c] = "idle" /\ ccmd'[c].op = "start" /\ ccmd'[c].minutes < 5)
          => /\ cpc'[c] = "handler"
             /\ cerr'[c] = ErrMinutes
             /\ UNCHANGED << lock, stop_event, ser_open, wpc, burst,
                             lastPos >>
             /\ status' = status]_vars
  /\ [](\A c \in Callers :
          (ccmd[c].op = "start" /\ ccmd[c].minutes < 5)
          => cpc[c] = "handler" /\ lock # CallerId(c))

C5_Witness ==
  \E c \in Callers :
    /\ cpc[c] = "handler"
    /\ cerr[c] = ErrMinutes
    /\ ccmd[c].minutes = 4

\* C6: a write that raises in the worker body ends in last_error holding
\* the error text, the lock released and running set to false: the lock
\* is only ever held by a thread inside one of its locked blocks, and
\* running is true only while a worker has yet to clear it or a
\* start_pass is about to spawn one.
C6_WorkerFailureReturnsToIdle ==
  /\ [][\A w \in Workers :
          (wpc[w] = "except" /\ wpc'[w] = "f_run")
          => werr[w] # "" /\ status'.last_error = werr[w]]_vars
  /\ [](\A w \in Workers :
          /\ (lock = WorkerId(w)) <=> (wpc[w] \in WorkerLockedPcs)
          /\ wpc[w] = "except" => werr[w] # "")
  /\ [](\A c \in Callers :
          (lock = CallerId(c)) <=> (cpc[c] \in CallerLockedPcs))
  /\ [](status.running =>
          \/ \E w \in Workers : wpc[w] \in RunningPcs
          \/ \E c \in Callers : cpc[c] \in { "start_msg", "start_prog",
                                             "start_err" })

\* A worker failed on a write and a later start_pass has been accepted.
C6_Witness ==
  /\ status.last_error = ErrWrite
  /\ calls.cancels = "none"
  /\ status.running
  /\ \E c \in Callers : cpc[c] = "start_err"

\* C7: a worker that left the loop without a failing write wrote, under
\* one lock hold, two stop frames, the home pair three times and one stop
\* frame; running is still true while it does so, and when it sets
\* running to false the home pair is the last position on the wire.
C7_FastHomeBeforeIdle ==
  \A w \in Workers :
    /\ wpc[w] = "fin_rel" =>
         /\ lock = WorkerId(w)
         /\ burst = << StopFrame, StopFrame, HomePayload, HomePayload,
                       HomePayload, StopFrame >>
    /\ wpc[w] \in { "fin_lock", "fin_body", "fin_rel" } => status.running
    /\ (wpc[w] = "f_run" /\ werr[w] = "") =>
         /\ status.running
         /\ lastPos = HomePayload

C7_Witness ==
  \E w \in Workers :
    /\ wpc[w] = "f_run"
    /\ werr[w] = ""
    /\ stop_event
    /\ lastPos = HomePayload

\* C8: when a command completes, last_error holds its error message if
\* it failed and is empty if it succeeded.
C8_LastErrorReflectsOutcome ==
  [][\A c \in Callers :
       (cpc[c] # "idle" /\ cpc'[c] = "idle")
       => status'.last_error = (IF cpc[c] = "handler" THEN cerr[c] ELSE "")
    ]_vars

\* A 7-byte frame with sync 0xFF, cmd1 = 0 and the checksum of its fields.
WellFormed(f) ==
  /\ Len(f) = 7
  /\ f[1] = 255
  /\ f[3] = 0
  /\ \A i \in 1..7 : f[i] \in 0..255
  /\ f[7] = (f[2] + f[3] + f[4] + f[5] + f[6]) % 256

\* C9: every frame the encoder builds, the stop frame and both frames of
\* the home payload are 7 bytes, start with 0xFF, have cmd1 = 0 and end
\* with (address + cmd1 + cmd2 + data_hi + data_lo) mod 256.
C9_FramesWellFormed ==
  /\ enc_out # <<>> =>
       /\ WellFormed(enc_out)
       /\ enc_out[2] = enc_in.addr
       /\ enc_out[4] = enc_in.cmd2
  /\ WellFormed(StopFrame)
  /\ WellFormed(SubSeq(HomePayload, 1, 7))
  /\ WellFormed(SubSeq(HomePayload, 8, 14))

\* A frame whose field sum exceeds one byte.
C9_Witness ==
  /\ enc_out # <<>>
  /\ enc_out[2] + enc_out[4] + enc_out[5] + enc_out[6] > 255
  /\ enc_out[5] > 0

HomeAzArgs == [addr |-> ADDR, cmd2 |-> CMD_AZ, angle |-> AZ_HOME_DEG]

\* C11 (as amended): encoding address 1, cmd2 0x4B, 175.0 degrees gives
\* FF 01 00 4B 44 5C EC: data = 17500 = 0x445C, so data_hi = 0x44 and
\* data_lo = 0x5C, and the checksum is (1 + 0 + 0x4B + 0x44 + 0x5C) mod 256
\* = 0xEC; the home payload starts with this frame.
C11_HomeAzimuthFrame ==
  /\ (enc_out # <<>> /\ enc_in = HomeAzArgs)
       => enc_out = << 255, 1, 0, 75, 68, 92, 236 >>
  /\ SubSeq(HomePayload, 1, 7) = << 255, 1, 0, 75, 68, 92, 236 >>

C11_Witness ==
  /\ enc_in = HomeAzArgs
  /\ Len(enc_out) = 7
  /\ enc_out[5] * 256 + enc_out[6] = 17500

\* C11 (as written): the same call gives FF 01 00 4B 44 4C and the
\* checksum of these fields, i.e. data_lo = 0x4C.
C11_AsWritten ==
  (enc_out # <<>> /\ enc_in = HomeAzArgs)
    => /\ SubSeq(enc_out, 1, 6) = << 255, 1, 0, 75, 68, 76 >>
       /\ enc_out[7] = (1 + 0 + 75 + 68 + 76) % 256

\* The devices of an enumeration whose description contains the keyword.
KwDevices(l) == { l[i].device : i \in { j \in 1..Len(l) : l[j].kw } }

\* The resolver's choice as the claim states it: the keyword device when
\* exactly one matches, else the sole device, else none ("").
ClaimedChoice(l) ==
  IF Cardinality(KwDevices(l)) = 1 THEN CHOOSE d \in KwDevices(l) : TRUE
  ELSE IF Len(l) = 1 THEN l[1].device
  ELSE ""

\* C12: for a non-empty enumeration the device opened is the keyword
\* device when exactly one description matches, else the sole device, and
\* in every other case (no match or several matches among two or more
\* devices) the first enumerated device.
C12_ResolverPolicy ==
  (resolved.stage = "opened" /\ enum_ports # <<>>)
    => status.port = (IF ClaimedChoice(enum_ports) # ""
                      THEN ClaimedChoice(enum_ports)
                      ELSE enum_ports[1].device)

\* The stages of a tick after the coordinated step.
AfterStep == { "stepped", "decided", "sent", "cancelled", "failed",
               "skipped" }

AfterDecision == { "decided", "sent", "cancelled", "failed", "skipped" }

\* -th < q < th for a mixed fraction q and a whole threshold th
StrictlyWithin(q, th) ==
  /\ q.i < th
  /\ q.i > -th \/ (q.i = -th /\ q.r > 0)

\* |cmd - last_sent| is strictly below the threshold on both axes, where
\* last_sent is the pair the tick started with.
BelowBoth ==
  /\ StrictlyWithin(QAddInt(shaper.cmd_az, -shaper.last0[1].i),
                    AZ_SEND_THRESHOLD_DEG)
  /\ StrictlyWithin(QAddInt(shaper.cmd_el, -shaper.last0[2].i),
                    EL_SEND_THRESHOLD_DEG)

\* C14: a tick with no pair sent yet decides to send; a later tick decides
\* to send exactly when the commanded pair is not strictly below both
\* thresholds from the last sent pair.  A tick that decided not to send
\* writes nothing; a tick that writes, writes the azimuth frame followed
\* by the elevation frame of the commanded pair in one payload; last_sent
\* becomes the commanded pair when the payload was written and is left
\* alone otherwise (no send, stop event seen under the lock, write failed).
C14_Decimation ==
  shaper.stage \in AfterDecision =>
    /\ shaper.last0 = NoneSent => shaper.send_pair
    /\ shaper.last0 # NoneSent => (shaper.send_pair <=> ~BelowBoth)
    /\ ~shaper.send_pair => shaper.stage \in { "decided", "skipped" }
    /\ shaper.stage = "sent" =>
         /\ shaper.send_pair
         /\ shaper.out =
              pelco_abs_frame_q(ADDR, 75, shaper.cmd_az) \o
              pelco_abs_frame_q(ADDR, 77, shaper.cmd_el)
         /\ shaper.last_sent = << shaper.cmd_az, shaper.cmd_el >>
    /\ shaper.stage # "sent" =>
         /\ shaper.out = <<>>
         /\ shaper.last_sent = shaper.last0

\* A later tick whose azimuth moved less than its threshold and whose
\* elevation is at its threshold: the pair was written.
C14_Witness ==
  /\ shaper.stage = "sent"
  /\ shaper.last0 # NoneSent
  /\ StrictlyWithin(QAddInt(shaper.cmd_az, -shaper.last0[1].i),
                    AZ_SEND_THRESHOLD_DEG)
  /\ QAddInt(shaper.cmd_el, -shaper.last0[2].i) =
       QInt(EL_SEND_THRESHOLD_DEG)
  /\ Len(shaper.out) = 14

\* Positions of a request thread inside stop() and inside home_fast().
StopPcs == { "stop_lock", "stop_body", "stop_rel", "stop_msg" }
HomePcs == { "home_lock", "home_write", "home_msg", "home_prog" }

\* The step is taken by request thread c.
Moved(c) == cpc'[c] # cpc[c]

\* The set of live worker threads is the same before and after the step.
SameWorkers ==
  { w \in Workers : wpc[w] = "none" } = { w \in Workers : wpc'[w] = "none" }

\* C15: no step of stop() or home_fast() changes status.running or the
\* worker threads, and running is false while no worker lives and no
\* start_pass is past its check; once the effects of one stop() (event
\* set, channel open, message "Stop requested") or of one home_fast()
\* (event set, channel open, message "Homing fast ...", progress 0) are in
\* place, every step of a further call leaves status, the event and the
\* channel as they are; start_pass returns with the event clear, and a
\* worker leaves its loop before its duration only if a stop/home request
\* was made under the lock during its own pass.
C15_IdleStopHomeHarmless ==
  /\ [][\A c \in Callers :
          (cpc[c] \in StopPcs \cup HomePcs /\ Moved(c))
          => /\ status'.running = status.running
             /\ wpc' = wpc]_vars
  /\ []( ( /\ NoWorker
           /\ \A c \in Callers :
                cpc[c] \notin { "start_msg", "start_prog", "start_err" } )
         => ~status.running )
  /\ [][\A c \in Callers :
          ( /\ cpc[c] \in StopPcs
            /\ Moved(c)
            /\ stop_event /\ ser_open /\ status.message = MsgStopReq )
          => status' = status /\ stop_event' /\ ser_open']_vars
  /\ [][\A c \in Callers :
          ( /\ cpc[c] \in HomePcs
            /\ Moved(c)
            /\ stop_event /\ ser_open /\ status.message = MsgHoming
            /\ status.progress = 0 )
          => status' = status /\ stop_event' /\ ser_open']_vars
  /\ [][\A c \in Callers :
          (cpc[c] = "start_err" /\ cpc'[c] = "idle") => ~stop_event']_vars
  /\ [][\A w \in Workers :
          ( /\ wpc[w] \in { "top", "send_lock" }
            /\ wpc'[w] = "fin_lock"
            /\ elapsed[w] < PassSeconds(wmin[w])
            /\ SameWorkers )
          => w \in cancelReq]_vars

\* Two calls of stop() or home_fast() made while idle have left the event
\* set and their message in place; a start_pass has passed its checks and
\* is about to clear the event for its worker.
C15_Witness ==
  /\ calls = [n |-> 3, cancels |-> "other"]
  /\ NoWorker
  /\ stop_event
  /\ ~status.running
  /\ status.message \in { MsgStopReq, MsgHoming }
  /\ status.last_error = ""
  /\ \E c \in Callers : cpc[c] = "start_clear"

\* C16: at most one worker thread is live, a thread being live from its
\* spawn by start_pass until _run_pass_worker returns, i.e. through the
\* finally block that stores message and progress and clears the event.
C16_AtMostOneLiveWorker ==
  Cardinality({ w \in Workers : wpc[w] # "none" }) <= 1

\* What the holder of the lock has written during its hold, by position.
HeldBurstOfCaller(pc) ==
  CASE pc = "stop_rel" -> << StopFrame, StopFrame >>
    [] pc \in { "home_msg", "home_prog" } ->
         << StopFrame, StopFrame, HomePayload, HomePayload, HomePayload >>
    [] OTHER -> <<>>

HeldBurstsOfWorker(pc) ==
  CASE pc = "init_rel" -> { << StopFrame, StopFrame, HomePayload >> }
    [] pc = "send_rel" -> { << TrajPayload(p) >> : p \in TrajSamples }
    [] pc = "fin_rel" ->
         { << StopFrame, StopFrame, HomePayload, HomePayload, HomePayload,
              StopFrame >> }
    [] OTHER -> { <<>> }

\* C17: a step that writes to the serial channel is taken by the thread
\* that holds the lock, and the lock does not pass to another thread in
\* it; at most one thread is inside a locked block; what has been written
\* during the current hold is exactly the holder's own sequence, whole once
\* its writes are done (stop: two stop frames; home_fast: two stop frames
\* and three home pairs; worker start: two stop frames and a home pair;
\* tick: one azimuth+elevation pair; worker end: two stop frames, three
\* home pairs, one stop frame), so no frame of another thread lies
\* inside it.
C17_WritesUnderLock ==
  /\ [][(lastPos' # lastPos \/ burst' \notin { burst, <<>> })
          => /\ lock # NoThread
             /\ lock' \in { lock, NoThread }
             /\ \A c \in Callers : Moved(c) => lock = CallerId(c)
             /\ \A w \in Workers : wpc'[w] # wpc[w] => lock = WorkerId(w)
       ]_vars
  /\ [](lock = NoThread => burst = <<>>)
  /\ [](Cardinality({ c \in Callers : cpc[c] \in CallerLockedPcs }) +
        Cardinality({ w \in Workers : wpc[w] \in WorkerLockedPcs }) <= 1)
  /\ [](\A c \in Callers :
          cpc[c] \in CallerLockedPcs
          => lock = CallerId(c) /\ burst = HeldBurstOfCaller(cpc[c]))
  /\ [](\A w \in Workers :
          wpc[w] \in WorkerLockedPcs
          => lock = WorkerId(w) /\ burst \in HeldBurstsOfWorker(wpc[w]))

\* home_fast has written its whole sequence under the lock while a worker
\* that decided to send waits for the lock.
C17_Witness ==
  /\ \E c \in Callers : cpc[c] = "home_msg" /\ lock = CallerId(c)
  /\ \E w \in Workers : wpc[w] = "send_lock"
  /\ burst = << StopFrame, StopFrame, HomePayload, HomePayload, HomePayload >>

\* C18: the serial channel is opened only when none is open, and only in
\* a step of a thread that holds the lock in that step (it acquired the
\* lock in it, or held it before); an open channel stays open and
\* status.port keeps its value through every later step, whatever ports
\* the system enumerates then; status.port names a port exactly when the
\* channel is open; with the channel open no call raises "No serial
\* ports found".
C18_LazySingleOpen ==
  /\ [][ser_open => ser_open' /\ status'.port = status.port]_vars
  /\ [][(ser_open' # ser_open \/ status'.port # status.port)
          => /\ ~ser_open
             /\ lock # NoThread \/ lock' # NoThread
             /\ \A c \in Callers :
                  Moved(c) => CallerId(c) \in { lock, lock' }
             /\ \A w \in Workers :
                  wpc'[w] # wpc[w] => WorkerId(w) \in { lock, lock' }
       ]_vars
  /\ [][ser_open
          => /\ \A c \in Callers :
                  cerr'[c] # cerr[c] => cerr'[c] # ErrNoPorts
             /\ \A w \in Workers :
                  werr'[w] # werr[w] => werr'[w] # ErrNoPorts
       ]_vars
  /\ [](ser_open <=> status.port # "")

\* A worker has run its own _ensure_serial on the channel that start_pass
\* had opened, and has written its initial sequence.
C18_Witness ==
  /\ ser_open
  /\ status.port # ""
  /\ \E w \in Workers : wpc[w] = "init_rel" /\ lock = WorkerId(w)

\* The angle a frame carries, in 0.01 degree.
FrameValue(f) == f[5] * 256 + f[6]

AzFrameSafe(f) ==
  /\ f[4] = CMD_AZ
  /\ FrameValue(f) * 10 >= AZ_MIN_SAFE
  /\ FrameValue(f) * 10 <= AZ_MAX_SAFE

ElFrameSafe(f) ==
  /\ f[4] = CMD_EL
  /\ FrameValue(f) * 10 >= EL_HORIZON_DEG
  /\ FrameValue(f) * 10 <= EL_MAX_DEG

\* C19: after the coordinated step the commanded azimuth lies in
\* [AZ_MIN_SAFE, AZ_MAX_SAFE] and the commanded elevation in
\* [EL_HORIZON_DEG, EL_MAX_DEG]; the pair written in the tick is an
\* azimuth frame (cmd2 0x4B) and an elevation frame (cmd2 0x4D) whose
\* angles lie in these bounds; so do the two frames of the home pair.
C19_FramesInSafeBounds ==
  /\ shaper.stage \in AfterStep
     => /\ QGeInt(shaper.cmd_az, AZ_MIN_SAFE)
        /\ QLeInt(shaper.cmd_az, AZ_MAX_SAFE)
        /\ QGeInt(shaper.cmd_el, EL_HORIZON_DEG)
        /\ QLeInt(shaper.cmd_el, EL_MAX_DEG)
  /\ shaper.stage = "sent"
     => /\ Len(shaper.out) = 14
        /\ AzFrameSafe(SubSeq(shaper.out, 1, 7))
        /\ ElFrameSafe(SubSeq(shaper.out, 8, 14))
  /\ AzFrameSafe(SubSeq(HomePayload, 1, 7))
  /\ ElFrameSafe(SubSeq(HomePayload, 8, 14))

\* A tick moved the azimuth onto its upper safe bound and wrote the pair.
C19_Witness ==
  /\ shaper.stage = "sent"
  /\ shaper.prev_az < AZ_MAX_SAFE
  /\ FrameValue(SubSeq(shaper.out, 1, 7)) * 10 = AZ_MAX_SAFE
  /\ shaper.out[11] = CMD_EL

\* The configured range after each end is clamped into the safe bounds.
ClampedRange(cfg) ==
  LET half == cfg.width \div 2
  IN  << clamp(IF cfg.centered THEN AZ_HOME_DEG - half ELSE cfg.start,
               AZ_MIN_SAFE, AZ_MAX_SAFE),
         clamp(IF cfg.centered THEN AZ_HOME_DEG + half ELSE cfg.end,
               AZ_MIN_SAFE, AZ_MAX_SAFE) >>

\* C20: for every configuration the pair (a0, a1) that compute_pass_bounds
\* returns has both values in [AZ_MIN_SAFE, AZ_MAX_SAFE] and a0 < a1, and
\* when the clamped range is empty or inverted a1 is a0 + 5 degrees.
C20_PassBounds ==
  sweep.stage = "computed"
  => LET a0 == sweep.out[1]
         a1 == sweep.out[2]
         c == ClampedRange(sweep.cfg)
     IN  /\ a0 >= AZ_MIN_SAFE /\ a0 <= AZ_MAX_SAFE
         /\ a1 >= AZ_MIN_SAFE /\ a1 <= AZ_MAX_SAFE
         /\ a0 < a1
         /\ c[2] <= c[1] => a1 = a0 + 5000

\* What a successful home_fast has put on the wire: two stop frames, then
\* three times the home azimuth frame followed by the horizon elevation
\* frame.
HomeFastWire ==
  LET stopf == << 255, ADDR, 0, 0, 0, 0, ADDR >>
      pair == pelco_abs_frame(ADDR, CMD_AZ, AZ_HOME_DEG) \o
              pelco_abs_frame(ADDR, CMD_EL, EL_HORIZON_DEG)
  IN  << stopf, stopf, pair, pair, pair >>

\* C21: a home_fast that opens (or finds open) the serial channel sets
\* the cancellation flag in the step in which it takes the lock; when its
\* writes are done it still holds that lock and the wire holds, for this
\* hold, exactly two stop frames and then the home pair three times; no
\* step of a thread executing home_fast changes the set of workers; when
\* _ensure_serial raises, the flag, the wire and the lock are as before
\* and the error is "No serial ports found".
C21_HomeFast ==
  /\ [][\A c \in Callers :
          (cpc[c] = "home_lock" /\ cpc'[c] = "home_write")
          => /\ stop_event'
             /\ ser_open'
             /\ lock = NoThread /\ lock' = CallerId(c)
             /\ burst' = <<>>
       ]_vars
  /\ [](\A c \in Callers :
          cpc[c] \in { "home_msg", "home_prog" }
          => lock = CallerId(c) /\ burst = HomeFastWire)
  /\ [][\A c \in Callers :
          (ccmd[c].op = "home" /\ Moved(c))
          => wpc' = wpc /\ wmin' = wmin /\ status'.running = status.running
       ]_vars
  /\ [][\A c \in Callers :
          (cpc[c] = "home_lock" /\ cpc'[c] = "handler")
          => /\ ~ser_open /\ ~ser_open'
             /\ cerr'[c] = ErrNoPorts
             /\ stop_event' = stop_event
             /\ cancelReq' = cancelReq
             /\ burst' = burst /\ lastPos' = lastPos
             /\ lock' = lock
       ]_vars

\* home_fast preempted a running pass: its whole sequence is written, the
\* flag is set and the message is stored, the lock still held.
C21_Witness ==
  /\ \E c \in Callers : cpc[c] = "home_prog" /\ lock = CallerId(c)
  /\ burst = HomeFastWire
  /\ stop_event
  /\ status.running
  /\ status.message = MsgHoming

\* C22: a start_pass that raises inside its locked block ("Pass is
\* already running." or "No serial ports found") leaves the cancellation
\* flag, every field of status (running, progress, message, last_error,
\* port), the serial channel, the wire, the lock and the workers as they
\* were; the step only stores the exception for the caller.
C22_RejectedStartHasNoEffect ==
  [][\A c \in Callers :
       (cpc[c] = "start_lock" /\ cpc'[c] = "handler")
       => /\ cerr'[c] \in { ErrAlready, ErrNoPorts }
          /\ cerr'[c] = ErrAlready <=> status.running
          /\ cerr'[c] = ErrNoPorts <=> ~ser_open
          /\ stop_event' = stop_event
          /\ cancelReq' = cancelReq
          /\ status' = status
          /\ ser_open' = ser_open
          /\ lock' = lock
          /\ burst' = burst /\ lastPos' = lastPos
          /\ workerVars' = workerVars
    ]_vars

\* A start_pass was rejected as "already running" while a cancellation
\* request was pending: the flag is still set and the pass still running.
C22_Witness ==
  /\ \E c \in Callers :
       /\ cpc[c] = "handler"
       /\ ccmd[c].op = "start"
       /\ cerr[c] = ErrAlready
  /\ stop_event
  /\ status.running
  /\ status.message = MsgStopReq

\* C23: under fair scheduling and an advancing clock, a worker that has
\* not yet stored "running = False" leads to status.running being false,
\* live workers lead to a state without workers, every call returns, and
\* a held lock leads to a free lock; the holder of the lock is always a
\* thread inside a locked block, never one that waits for the lock, has
\* left the block or has raised out of it.
C23_WorkersTerminate ==
  /\ [](\A c \in Callers :
          lock = CallerId(c) => cpc[c] \in CallerLockedPcs)
  /\ [](\A w \in Workers :
          lock = WorkerId(w) => wpc[w] \in WorkerLockedPcs)
  /\ [](lock # NoThread
        => \/ \E c \in Callers : lock = CallerId(c)
           \/ \E w \in Workers : lock = WorkerId(w))
  /\ (lock # NoThread) ~> (lock = NoThread)
  /\ (\E w \in Workers : wpc[w] \in RunningPcs) ~> ~status.running
  /\ (\E w \in Workers : wpc[w] # "none") ~> NoWorker
  /\ \A c \in Callers : (cpc[c] # "idle") ~> (cpc[c] = "idle")

\* A pass whose write failed inside a locked block, with a stop request
\* issued meanwhile, has ended: no worker is left, the lock is free and
\* running is false.
C23_Witness ==
  /\ NoWorker
  /\ AllIdle
  /\ lock = NoThread
  /\ ~status.running
  /\ ~stop_event
  /\ status.last_error = ErrWrite
  /\ status.message = MsgStopped

====
